---- MODULE Spec2Model ----
(***************************************************************************)
(* The XML2RFC v2 rendering backend of mmark (xml2rfcv2.go): the Xml2      *)
(* renderer state, the handlers that change it or that write document and  *)
(* section structure, and the output buffer they append to.                *)
(*                                                                         *)
(* The output buffer is a sequence of the strings the handlers write, one  *)
(* element per WriteString/Write call, so a length of the buffer (a        *)
(* rollback marker) always falls between two writes, as in the code.       *)
(***************************************************************************)
EXTENDS Integers, Sequences, FiniteSets, TLC

VARIABLES
    flags,         \* Xml2.flags: TRUE iff flags&XML_STANDALONE != 0
    sectionLevel,  \* Xml2.sectionLevel
    docLevel,      \* Xml2.docLevel
    ial,           \* Xml2.ial
    titleBlock,    \* Xml2.titleBlock: <<>> is nil, <<b>> is a block
    out,           \* the *bytes.Buffer every handler is handed
    citations,     \* the citation map the parser hands to References
    stack,         \* the List/Paragraph calls whose text() callback is running
    hist           \* the calls made so far, in order

vars == <<flags, sectionLevel, docLevel, ial, titleBlock, out, citations, stack, hist>>

(***************************************************************************)
(* Bounds of the model.                                                    *)
(***************************************************************************)
MaxCalls == 3      \* calls per run of the document-lifecycle specification
MaxLevel == 3      \* heading levels are 1..MaxLevel
MaxCites == 3      \* citation keys in the map handed to References
MaxRefCalls == 2   \* calls per run of the references specification
MaxSteps == 5      \* calls and returns per run of the block specification
MaxStart == 2      \* list start indexes are 0..MaxStart

(***************************************************************************)
(* Constants of the package that the renderer reads.                       *)
(***************************************************************************)
DOC_FRONT_MATTER == 0
DOC_MAIN_MATTER == 1
DOC_BACK_MATTER == 2
Matters == {DOC_FRONT_MATTER, DOC_MAIN_MATTER, DOC_BACK_MATTER}

LIST_TYPE_ORDERED == "LIST_TYPE_ORDERED"
LIST_TYPE_DEFINITION == "LIST_TYPE_DEFINITION"

(***************************************************************************)
(* The strings the handlers write.                                         *)
(***************************************************************************)
SectionClose == "</section>\n"
SectionOpen(id) == "\n<section anchor=\"" \o id \o "\">\n"
NameOpen == "<name>"
NameClose == "</name>\n"
FrontOpen == "<front>\n"
FrontClose == "</front>\n"
MiddleOpen == "<middle>\n"
MiddleClose == "</middle>\n"
BackOpen == "<back>\n"
BackClose == "</back>\n"
RfcClose == "</rfc>\n"
XmlDecl == "<?xml version=\"1.0\" encoding=\"UTF-8\"?>\n"
InformativeOpen == "<references title=\"Informative References\">\n"
NormativeOpen == "<references title=\"Normative References\">\n"
ReferencesClose == "</references>\n"
Include(f) == "\t<xi:include href=\"" \o f \o "\"/>\n"

(***************************************************************************)
(* Inputs.                                                                 *)
(***************************************************************************)
Levels == 1..MaxLevel
Ids == {"intro"}
Titles == {<<"Title">>}
IALBatches == {<<"ial1">>, <<"ial2", "ial3">>}

Call(op, n, b) == [op |-> op, n |-> n, b |-> b]
Record(c) == hist' = Append(hist, c)

\* How many elements of s are in the set S.
CountIn(s, S) == Cardinality({i \in 1..Len(s) : s[i] \in S})
SectionOpens == {SectionOpen(id) : id \in Ids}
\* Section containers opened in s and not closed in s.
Unclosed(s) == CountIn(s, SectionOpens) - CountIn(s, {SectionClose})
\* What a call appended: the part of the new buffer after the old one.
Suffix(new, old) == SubSeq(new, Len(old) + 1, Len(new))

\* n times "</section>\n": the loops of Header, References and DocumentFooter.
RECURSIVE CloseSections(_)
CloseSections(n) == IF n > 0 THEN <<SectionClose>> \o CloseSections(n - 1) ELSE <<>>

(***************************************************************************)
(* func (options *Xml2) SetIAL(i []*IAL)                                   *)
(***************************************************************************)
\* The slip of assigning the batch instead of appending it.
SetIALReplaces(i) ==
    /\ ial' = i
    /\ Record(Call("SetIAL", Len(i), FALSE))
    /\ UNCHANGED <<flags, sectionLevel, docLevel, titleBlock, out, citations, stack>>

SetIAL(i) ==
    /\ ial' = ial \o i
    /\ Record(Call("SetIAL", Len(i), FALSE))
    /\ UNCHANGED <<flags, sectionLevel, docLevel, titleBlock, out, citations, stack>>

(***************************************************************************)
(* Slips of Header: closing one section too few (the loop starting at      *)
(* sectionLevel - level), and opening a section for a quoted heading.      *)
(***************************************************************************)
HeaderClosesOneLess(text, level, id, quote) ==
    /\ IF quote
         THEN /\ out' = out \o <<NameOpen>> \o text \o <<NameClose>>
              /\ UNCHANGED sectionLevel
         ELSE /\ out' = out
                    \o (IF level <= sectionLevel
                          THEN CloseSections(sectionLevel - level)
                          ELSE <<>>)
                    \o <<SectionOpen(id), NameOpen>> \o text \o <<NameClose>>
              /\ sectionLevel' = level
    /\ Record(Call("Header", level, quote))
    /\ UNCHANGED <<flags, docLevel, ial, titleBlock, citations, stack>>

HeaderIgnoresQuote(text, level, id, quote) ==
    /\ out' = out
          \o (IF level <= sectionLevel
                THEN CloseSections(sectionLevel - level + 1)
                ELSE <<>>)
          \o <<SectionOpen(id), NameOpen>> \o text \o <<NameClose>>
    /\ sectionLevel' = level
    /\ Record(Call("Header", level, quote))
    /\ UNCHANGED <<flags, docLevel, ial, titleBlock, citations, stack>>

(***************************************************************************)
(* func (options *Xml2) Header(out, text, level, id, quote)                *)
(* text is what the title callback writes; its result is ignored.          *)
(***************************************************************************)
Header(text, level, id, quote) ==
    /\ IF quote
         THEN /\ out' = out \o <<NameOpen>> \o text \o <<NameClose>>
              /\ UNCHANGED sectionLevel
         ELSE /\ out' = out
                    \o (IF level <= sectionLevel
                          THEN CloseSections(sectionLevel - level + 1)
                          ELSE <<>>)
                    \o <<SectionOpen(id), NameOpen>> \o text \o <<NameClose>>
              /\ sectionLevel' = level
    /\ Record(Call("Header", level, quote))
    /\ UNCHANGED <<flags, docLevel, ial, titleBlock, citations, stack>>

(***************************************************************************)
(* if !first || options.flags&XML_STANDALONE == 0 { return }: the guard of *)
(* DocumentHeader, DocumentFooter and References.                          *)
(***************************************************************************)
\* The slip of writing && for ||.
SkipWhenBoth(first) == ~first /\ ~flags

Skip(first) == ~first \/ ~flags

(***************************************************************************)
(* func (options *Xml2) DocumentHeader(out, first)                         *)
(***************************************************************************)
DocumentHeader(first) ==
    /\ IF Skip(first)
         THEN UNCHANGED out
         ELSE out' = Append(out, XmlDecl)
    /\ Record(Call("DocumentHeader", 0, first))
    /\ UNCHANGED <<flags, sectionLevel, docLevel, ial, titleBlock, citations, stack>>

(***************************************************************************)
(* func (options *Xml2) DocumentFooter(out, first)                         *)
(***************************************************************************)
\* The slip of closing <middle> where <back> is open.
MatterCloseNoBack(level) ==
    CASE level = DOC_FRONT_MATTER -> <<FrontClose>>
      [] level = DOC_MAIN_MATTER -> <<MiddleClose>>
      [] level = DOC_BACK_MATTER -> <<MiddleClose>>
      [] OTHER -> <<>>

\* The switch on options.docLevel at lines 462-469.
MatterClose(level) ==
    CASE level = DOC_FRONT_MATTER -> <<FrontClose>>
      [] level = DOC_MAIN_MATTER -> <<MiddleClose>>
      [] level = DOC_BACK_MATTER -> <<BackClose>>
      [] OTHER -> <<>>

\* The slip of leaving out options.sectionLevel-- in the loop.
DocumentFooterKeepsLevel(first) ==
    /\ IF Skip(first)
         THEN UNCHANGED out
         ELSE out' = out \o CloseSections(sectionLevel)
                         \o MatterClose(docLevel) \o <<RfcClose>>
    /\ Record(Call("DocumentFooter", 0, first))
    /\ UNCHANGED <<flags, sectionLevel, docLevel, ial, titleBlock, citations, stack>>

DocumentFooter(first) ==
    /\ IF Skip(first)
         THEN UNCHANGED <<out, sectionLevel>>
         ELSE /\ out' = out \o CloseSections(sectionLevel)
                            \o MatterClose(docLevel) \o <<RfcClose>>
              /\ sectionLevel' = IF sectionLevel > 0 THEN 0 ELSE sectionLevel
    /\ Record(Call("DocumentFooter", 0, first))
    /\ UNCHANGED <<flags, docLevel, ial, titleBlock, citations, stack>>

(***************************************************************************)
(* func (options *Xml2) DocumentMatter(out, matter)                        *)
(***************************************************************************)
DocumentMatter(matter) ==
    /\ out' = out \o (CASE matter = DOC_FRONT_MATTER -> <<>>
                        [] matter = DOC_MAIN_MATTER -> <<FrontClose, MiddleOpen>>
                        [] matter = DOC_BACK_MATTER -> <<MiddleClose, BackOpen>>
                        [] OTHER -> <<>>)
    /\ docLevel' = matter
    /\ Record(Call("DocumentMatter", matter, FALSE))
    /\ UNCHANGED <<flags, sectionLevel, ial, titleBlock, citations, stack>>

(***************************************************************************)
(* func (options *Xml2) TitleBlockTOML(out, block)                         *)
(***************************************************************************)
MonthNames == <<"January", "February", "March", "April", "May", "June", "July",
                "August", "September", "October", "November", "December">>

RECURSIVE Keywords(_)
Keywords(ks) ==
    IF ks = <<>> THEN <<>>
    ELSE <<"<keyword>" \o Head(ks) \o "</keyword>\n">> \o Keywords(Tail(ks))

RECURSIVE Authors(_)
Authors(as) ==
    IF as = <<>> THEN <<>>
    ELSE <<"<author>\n",
           "<initials>" \o Head(as).Initials \o "</initials>\n",
           "<surname>" \o Head(as).Surname \o "</surname>\n",
           "<fullname>" \o Head(as).Fullname \o "</fullname>\n",
           "<role>" \o Head(as).Role \o "</role>\n",
           "<ascii>" \o Head(as).Ascii \o "</ascii>\n",
           "</author>\n">> \o Authors(Tail(as))

RfcOpen(block) ==
    "<rfc xmlns:xi=\"http://www.w3.org/2001/XInclude\" ipr=\"" \o block.Ipr
        \o "\" category=\"" \o block.Category
        \o "\" docName=\"" \o block.DocName \o "\">\n"

DateTag(date) ==
    LET year == IF date.Year > 0
                  THEN " year=\"" \o ToString(date.Year) \o "\"" ELSE ""
        month == IF date.Month > 0
                   THEN " month=\"" \o MonthNames[date.Month] \o "\"" ELSE ""
        day == IF date.Day > 0
                 THEN " day=\"" \o ToString(date.Day) \o "\"" ELSE ""
    IN "<date" \o year \o month \o day \o "/>\n\n"

TitleBlockTOML(block) ==
    /\ IF ~flags
         THEN UNCHANGED <<titleBlock, out>>
         ELSE /\ titleBlock' = <<block>>
              /\ out' = out
                    \o <<RfcOpen(block), FrontOpen,
                         "<title abbrev=\"" \o block.Abbrev \o "\">",
                         block.Title \o "</title>\n\n",
                         DateTag(block.Date),
                         "<area>" \o block.Area \o "</area>\n",
                         "<workgroup>" \o block.Workgroup \o "</workgroup>\n">>
                    \o Keywords(block.Keyword)
                    \o Authors(block.Author)
                    \o <<"\n">>
    /\ Record(Call("TitleBlockTOML", 0, FALSE))
    /\ UNCHANGED <<flags, sectionLevel, docLevel, ial, citations, stack>>

TitleBlocks ==
    {[Ipr |-> "trust200902", Category |-> "std", DocName |-> "draft-x-00",
      Abbrev |-> "T", Title |-> "Title", Date |-> [Year |-> 2015, Month |-> 3, Day |-> 1],
      Area |-> "Internet", Workgroup |-> "", Keyword |-> <<"xml">>,
      Author |-> <<[Initials |-> "A.", Surname |-> "B", Fullname |-> "A. B",
                    Role |-> "editor", Ascii |-> "A. B"]>>]}

(***************************************************************************)
(* func (options *Xml2) References(out, citations, first)                  *)
(***************************************************************************)
\* The enumerations of a set: the orders in which Go may range over a map.
Orders(S) ==
    {o \in [1..Cardinality(S) -> S] : \A i, j \in DOMAIN o : i # j => o[i] # o[j]}

\* referenceFile(c): the naming convention for a citation without a filename.
ReferenceFile(c) == "reference." \o c.link \o ".xml"

\* The slip of leaving out the test of c.typ.
VisitsAnyTyp(cs, typ) == Orders(DOMAIN cs)

\* for _, c := range citations { if c.typ == typ { ... } }: the citations
\* whose typ passes the test, in each order the range may visit them.
Visits(cs, typ) == Orders({k \in DOMAIN cs : cs[k].typ = typ})

\* The body of the loops at lines 329-337 and 342-350 for one citation
\* that passed the test.
IncludeLine(c) ==
    Include(IF c.filename = "" THEN ReferenceFile(c) ELSE c.filename)

\* The lines one range writes, visiting in the order o.
IncludeLines(cs, o) == [i \in DOMAIN o |-> IncludeLine(cs[o[i]])]

\* refi and refn: the counting loop at lines 315-323.
CountTyp(cs, typ) == Cardinality({k \in DOMAIN cs : cs[k].typ = typ})

\* The switch on options.docLevel at lines 303-312.
ToBackMatter(level) ==
    CASE level = DOC_FRONT_MATTER -> <<FrontClose, BackOpen>>
      [] level = DOC_MAIN_MATTER -> <<MiddleClose, BackOpen>>
      [] level = DOC_BACK_MATTER -> <<>>
      [] OTHER -> <<>>

\* Lines 326-353, with oi and on the orders of the two ranges.
ReferenceGroups(cs, oi, on) ==
    LET refi == CountTyp(cs, "i")
        refn == CountTyp(cs, "n")
    IN IF refi + refn > 0
         THEN (IF refi > 0
                 THEN <<InformativeOpen>> \o IncludeLines(cs, oi)
                        \o <<ReferencesClose>>
                 ELSE <<>>)
              \o (IF refn > 0
                    THEN <<NormativeOpen>> \o IncludeLines(cs, on)
                           \o <<ReferencesClose>>
                    ELSE <<>>)
         ELSE <<>>

References(first) ==
    /\ IF Skip(first)
         THEN UNCHANGED <<out, sectionLevel, docLevel>>
         ELSE /\ \E oi \in Visits(citations, "i"), on \in Visits(citations, "n") :
                   out' = out \o CloseSections(sectionLevel)
                              \o ToBackMatter(docLevel)
                              \o ReferenceGroups(citations, oi, on)
              /\ sectionLevel' = IF sectionLevel > 0 THEN 0 ELSE sectionLevel
              /\ docLevel' = DOC_BACK_MATTER
    /\ Record(Call("References", 0, first))
    /\ UNCHANGED <<flags, ial, titleBlock, citations, stack>>

(***************************************************************************)
(* func (options *Xml2) NormalText(out, text)                              *)
(***************************************************************************)
NormalText(text) ==
    /\ out' = Append(out, text)
    /\ Record(Call("NormalText", 0, FALSE))
    /\ UNCHANGED <<flags, sectionLevel, docLevel, ial, titleBlock, citations, stack>>

(***************************************************************************)
(* func (options *Xml2) List(out, text, flags, start)                      *)
(* ListBegin is the call up to text(), ListEnd the rest once text() has    *)
(* returned ok.  A frame of the stack holds the call's locals; its entry   *)
(* field is the buffer as it was at the call, kept for the properties.     *)
(***************************************************************************)
\* The slip of taking the marker after the open tag is written.
FrameMarkedLate(op, lflags) ==
    [op |-> op, marker |-> Len(out) + 1, lflags |-> lflags, entry |-> out]

\* marker := out.Len(), and the call's flags.
Frame(op, lflags) ==
    [op |-> op, marker |-> Len(out), lflags |-> lflags, entry |-> out]
Top == stack[Len(stack)]
Pop == SubSeq(stack, 1, Len(stack) - 1)
\* The slip of calling out.Reset() for out.Truncate(marker).
TruncateAll(buf, marker) == <<>>

\* out.Truncate(marker)
Truncate(buf, marker) == SubSeq(buf, 1, marker)

ListOpen(lflags, start) ==
    CASE LIST_TYPE_ORDERED \in lflags ->
           IF start <= 1 THEN "<ol>\n"
           ELSE "<ol start=\"" \o ToString(start) \o "\">\n"
      [] LIST_TYPE_DEFINITION \in lflags -> "<dl>\n"
      [] OTHER -> "<ul>\n"

ListClose(lflags) ==
    CASE LIST_TYPE_ORDERED \in lflags -> "</ol>\n"
      [] LIST_TYPE_DEFINITION \in lflags -> "</dl>\n"
      [] OTHER -> "</ul>\n"

ListBegin(lflags, start) ==
    /\ stack' = Append(stack, Frame("List", lflags))
    /\ out' = Append(out, ListOpen(lflags, start))
    /\ Record(Call("List", start, FALSE))
    /\ UNCHANGED <<flags, sectionLevel, docLevel, ial, titleBlock, citations>>

ListEnd(ok) ==
    /\ stack # <<>>
    /\ Top.op = "List"
    /\ out' = IF ~ok THEN Truncate(out, Top.marker)
              ELSE Append(out, ListClose(Top.lflags))
    /\ stack' = Pop
    /\ Record(Call("ListReturn", 0, ok))
    /\ UNCHANGED <<flags, sectionLevel, docLevel, ial, titleBlock, citations>>

(***************************************************************************)
(* func (options *Xml2) Paragraph(out, text)                               *)
(***************************************************************************)
ParagraphBegin ==
    /\ stack' = Append(stack, Frame("Paragraph", {}))
    /\ out' = Append(out, "<t>")
    /\ Record(Call("Paragraph", 0, FALSE))
    /\ UNCHANGED <<flags, sectionLevel, docLevel, ial, titleBlock, citations>>

ParagraphEnd(ok) ==
    /\ stack # <<>>
    /\ Top.op = "Paragraph"
    /\ out' = IF ~ok THEN Truncate(out, Top.marker)
              ELSE Append(out, "</t>\n")
    /\ stack' = Pop
    /\ Record(Call("ParagraphReturn", 0, ok))
    /\ UNCHANGED <<flags, sectionLevel, docLevel, ial, titleBlock, citations>>

(***************************************************************************)
(* func Xml2Renderer(flags int) Renderer, and an empty buffer.             *)
(***************************************************************************)
Xml2Renderer ==
    /\ flags \in BOOLEAN
    /\ sectionLevel = 0
    /\ docLevel = 0
    /\ ial = <<>>
    /\ titleBlock = <<>>
    /\ out = <<>>
    /\ stack = <<>>
    /\ hist = <<>>

(***************************************************************************)
(* The citation maps.                                                      *)
(***************************************************************************)
Keys == {"RFC" \o ToString(i) : i \in 1..MaxCites}
Filenames == {"", "refs.xml"}
CitationMap(K, m) ==
    [k \in K |-> [link |-> k, typ |-> m[k][1], filename |-> m[k][2]]]
AllCitations ==
    UNION {{CitationMap(K, m) : m \in [K -> {"i", "n"} \X Filenames]} : K \in SUBSET Keys}
DocCitations ==
    {CitationMap({}, <<>>),
     CitationMap({"RFC1", "RFC2"}, [k \in {"RFC1", "RFC2"} |->
                                      IF k = "RFC1" THEN <<"n", "">> ELSE <<"i", "">>])}

(***************************************************************************)
(* The document-lifecycle specification: the handlers the parser calls at  *)
(* the top level of a document, in any order.                              *)
(***************************************************************************)
Init == Xml2Renderer /\ citations \in DocCitations

More(bound) == Len(hist) < bound

Next ==
    \/ \E i \in IALBatches : More(MaxCalls) /\ SetIAL(i)
    \/ \E text \in Titles, level \in Levels, id \in Ids, quote \in BOOLEAN :
         More(MaxCalls) /\ Header(text, level, id, quote)
    \/ \E block \in TitleBlocks : More(MaxCalls) /\ TitleBlockTOML(block)
    \/ \E first \in BOOLEAN : More(MaxCalls) /\ DocumentHeader(first)
    \/ \E first \in BOOLEAN : More(MaxCalls) /\ DocumentFooter(first)
    \/ \E matter \in Matters : More(MaxCalls) /\ DocumentMatter(matter)
    \/ \E first \in BOOLEAN : More(MaxCalls) /\ References(first)

Spec == Init /\ [][Next]_vars

(***************************************************************************)
(* The references specification: References on every citation map, after   *)
(* headings and matter transitions.                                        *)
(***************************************************************************)
InitRefs == Xml2Renderer /\ flags /\ citations \in AllCitations

NextRefs ==
    \/ \E text \in Titles, level \in Levels, id \in Ids :
         More(MaxRefCalls) /\ Header(text, level, id, FALSE)
    \/ \E matter \in {DOC_MAIN_MATTER, DOC_BACK_MATTER} :
         More(MaxRefCalls) /\ DocumentMatter(matter)
    \/ \E first \in BOOLEAN : More(MaxRefCalls) /\ References(first)

SpecRefs == InitRefs /\ [][NextRefs]_vars

(***************************************************************************)
(* The block specification: List and Paragraph with the handlers their     *)
(* text() callbacks run, nested to any depth.                              *)
(***************************************************************************)
ListArgs ==
    {<<{}, 0>>, <<{LIST_TYPE_ORDERED}, 1>>, <<{LIST_TYPE_ORDERED}, MaxStart>>,
     <<{LIST_TYPE_DEFINITION}, 0>>,
     <<{LIST_TYPE_ORDERED, LIST_TYPE_DEFINITION}, MaxStart>>}

InitBlocks == Xml2Renderer /\ citations \in {CitationMap({}, <<>>)}

NextBlocks ==
    \/ \E a \in ListArgs : More(MaxSteps) /\ ListBegin(a[1], a[2])
    \/ \E ok \in BOOLEAN : More(MaxSteps) /\ ListEnd(ok)
    \/ More(MaxSteps) /\ ParagraphBegin
    \/ \E ok \in BOOLEAN : More(MaxSteps) /\ ParagraphEnd(ok)
    \/ \E text \in {"text"} : More(MaxSteps) /\ NormalText(text)
    \/ \E text \in Titles, id \in Ids :
         More(MaxSteps) /\ Header(text, 1, id, FALSE)

SpecBlocks == InitBlocks /\ [][NextBlocks]_vars

(***************************************************************************)
(* func (options *Xml2) GetAndResetIAL() []*IAL, as BlockCode and          *)
(* BlockQuote use it: renderIAL of the pending attributes, which are       *)
(* cleared.  renderIAL writes each attribute after a space.                *)
(***************************************************************************)
RECURSIVE RenderIAL(_)
RenderIAL(i) == IF i = <<>> THEN "" ELSE " " \o Head(i) \o RenderIAL(Tail(i))

(***************************************************************************)
(* func (options *Xml2) BlockCode(out, text, lang)                         *)
(***************************************************************************)
BlockCode(text, lang) ==
    /\ LET s == RenderIAL(ial)
       IN out' = out
            \o <<IF lang = "" THEN "<sourcecode" \o s \o ">\n"
                 ELSE "\n<sourcecode" \o s \o "type=\"" \o lang \o "\">\n",
                 text, "</sourcecode>\n">>
    /\ ial' = <<>>
    /\ Record(Call("BlockCode", 0, lang # ""))
    /\ UNCHANGED <<flags, sectionLevel, docLevel, titleBlock, citations, stack>>

(***************************************************************************)
(* func (options *Xml2) BlockQuote(out, text)                              *)
(***************************************************************************)
BlockQuote(text) ==
    /\ LET s == RenderIAL(ial)
       IN out' = out \o <<"<blockquote" \o s \o ">\n", text, "</blockquote>\n">>
    /\ ial' = <<>>
    /\ Record(Call("BlockQuote", 0, FALSE))
    /\ UNCHANGED <<flags, sectionLevel, docLevel, titleBlock, citations, stack>>

(***************************************************************************)
(* func (options *Xml2) Abstract, Aside, Note, Figure, BlockHtml (out,     *)
(* text): text between the two tags of the handler.                        *)
(***************************************************************************)
Wrappers ==
    [Abstract |-> <<"<abstract>\n", "</abstract>\n">>,
     Aside |-> <<"<aside>\n", "</aside>\n">>,
     Note |-> <<"<note>\n", "</note>\n">>,
     Figure |-> <<"<figure>\n", "</figure>\n">>,
     BlockHtml |-> <<"\n\\begin{verbatim}\n", "\n\\end{verbatim}\n">>]

Wrap(handler, text) ==
    /\ out' = out \o <<Wrappers[handler][1], text, Wrappers[handler][2]>>
    /\ Record(Call(handler, 0, FALSE))
    /\ UNCHANGED <<flags, sectionLevel, docLevel, ial, titleBlock, citations, stack>>

(***************************************************************************)
(* func (options *Xml2) Table(out, header, body, columnData, table)        *)
(***************************************************************************)
Table(header, body) ==
    /\ out' = out \o <<"<table>\n<thead>\n", header, "</thead>\n", body, "</table>\n">>
    /\ Record(Call("Table", 0, FALSE))
    /\ UNCHANGED <<flags, sectionLevel, docLevel, ial, titleBlock, citations, stack>>

(***************************************************************************)
(* The attribute specification: SetIAL and every handler that emits a      *)
(* block or ends a part of the document.                                   *)
(***************************************************************************)
MaxAttrCalls == 3   \* calls and returns per run of the attribute specification

NextAttrs ==
    \/ \E i \in IALBatches : More(MaxAttrCalls) /\ SetIAL(i)
    \/ \E lang \in {"", "go"} : More(MaxAttrCalls) /\ BlockCode("code", lang)
    \/ More(MaxAttrCalls) /\ BlockQuote("quote")
    \/ \E handler \in DOMAIN Wrappers : More(MaxAttrCalls) /\ Wrap(handler, "text")
    \/ More(MaxAttrCalls) /\ Table("<tr></tr>", "<tr></tr>")
    \/ More(MaxAttrCalls) /\ ParagraphBegin
    \/ \E ok \in BOOLEAN : More(MaxAttrCalls) /\ ParagraphEnd(ok)
    \/ More(MaxAttrCalls) /\ ListBegin({}, 0)
    \/ \E ok \in BOOLEAN : More(MaxAttrCalls) /\ ListEnd(ok)
    \/ \E text \in Titles, id \in Ids, quote \in BOOLEAN :
         More(MaxAttrCalls) /\ Header(text, 1, id, quote)
    \/ \E first \in BOOLEAN : More(MaxAttrCalls) /\ References(first)
    \/ More(MaxAttrCalls) /\ DocumentMatter(DOC_MAIN_MATTER)
    \/ \E first \in BOOLEAN : More(MaxAttrCalls) /\ DocumentFooter(first)

SpecAttrs == InitBlocks /\ [][NextAttrs]_vars

(***************************************************************************)
(* func (options *Xml2) Image(out, link, title, alt)                       *)
(* A link is a sequence of pieces, none the beginning of another, so that  *)
(* one link's bytes begin with another's exactly when its pieces do; the   *)
(* bytes written are the pieces joined.                                    *)
(***************************************************************************)
MaxLinkLen == 3   \* pieces in a link
Pieces == {"http", "s", "://", "ftp", "img.png"}
Links == UNION {[1..n -> Pieces] : n \in 0..MaxLinkLen}
Http == <<"http", "://">>
Https == <<"http", "s", "://">>

RECURSIVE Bytes(_)
Bytes(link) == IF link = <<>> THEN "" ELSE Head(link) \o Bytes(Tail(link))

\* The slip of calling bytes.Contains for bytes.HasPrefix.
Contains(link, prefix) ==
    \E k \in 0..(Len(link) - Len(prefix)) :
      SubSeq(link, k + 1, k + Len(prefix)) = prefix

\* bytes.HasPrefix(link, prefix)
HasPrefix(link, prefix) ==
    Len(link) >= Len(prefix) /\ SubSeq(link, 1, Len(prefix)) = prefix

Image(link, alt) ==
    /\ out' = out \o (IF HasPrefix(link, Http) \/ HasPrefix(link, Https)
                        THEN <<"\\href{", Bytes(link), "}{", alt, "}">>
                        ELSE <<"\\includegraphics{", Bytes(link), "}">>)
    /\ Record(Call("Image", link, FALSE))
    /\ UNCHANGED <<flags, sectionLevel, docLevel, ial, titleBlock, citations, stack>>

(***************************************************************************)
(* The image specification: Image on every link, on a new renderer.        *)
(***************************************************************************)
NextImage ==
    \E link \in Links, alt \in {"", "alt"} : hist = <<>> /\ Image(link, alt)

SpecImage == InitBlocks /\ [][NextImage]_vars

(***************************************************************************)
(* Reading the history and the buffer.                                     *)
(***************************************************************************)
LastCall == hist[Len(hist)]
\* The step appends the call c to the history.
Calls(c) == hist' = Append(hist, c)
\* Every call of h satisfies one of the operator names in ops.
OnlyOps(h, ops) == \A i \in 1..Len(h) : h[i].op \in ops
\* How many calls of h equal c.
Times(h, c) == Cardinality({i \in 1..Len(h) : h[i] = c})
\* The calls of h before its last one.
Front(h) == SubSeq(h, 1, Len(h) - 1)
NonQuotedHeaders(h) == \A i \in 1..Len(h) : h[i].op = "Header" /\ ~h[i].b
FooterTrue == Call("DocumentFooter", 0, TRUE)
ReferencesTrue == Call("References", 0, TRUE)
MatterMain == Call("DocumentMatter", DOC_MAIN_MATTER, FALSE)
MatterBack == Call("DocumentMatter", DOC_BACK_MATTER, FALSE)
MatterCloses == {FrontClose, MiddleClose, BackClose}

(***************************************************************************)
(* C1: after non-quoted Header calls at any levels and then                *)
(* DocumentFooter(first=true) in standalone mode, the output holds as many *)
(* "</section>" tags as "<section ...>" tags.                              *)
(***************************************************************************)
C1_SectionsBalanced ==
    (/\ flags
     /\ hist # <<>>
     /\ LastCall = FooterTrue
     /\ NonQuotedHeaders(Front(hist)))
    => CountIn(out, {SectionClose}) = CountIn(out, SectionOpens)

(***************************************************************************)
(* C2: after any sequence of Header, DocumentMatter, References and        *)
(* DocumentFooter calls, sectionLevel is the number of section containers  *)
(* opened in the output and not yet closed.                                *)
(***************************************************************************)
C2_SectionLevelIsDepth ==
    OnlyOps(hist, {"Header", "DocumentMatter", "References", "DocumentFooter"})
    => sectionLevel = Unclosed(out)

(***************************************************************************)
(* C3: whenever a call writes "</front>", "</middle>" or "</back>", no     *)
(* section container is open in the output before that tag, and            *)
(* sectionLevel is 0.                                                      *)
(***************************************************************************)
C3_MatterCloseAfterSections ==
    [][\A i \in (Len(out) + 1)..Len(out') :
          out'[i] \in MatterCloses
          => Unclosed(SubSeq(out', 1, i - 1)) = 0 /\ sectionLevel' = 0]_vars

(***************************************************************************)
(* C4: with the standalone flag unset, the output never holds a            *)
(* document-level tag: the XML declaration, <rfc, </rfc>, <front>,         *)
(* </front>, <middle>, </middle>, <back>, </back> or <references.          *)
(***************************************************************************)
DocumentTags ==
    {XmlDecl, RfcClose, FrontOpen, FrontClose, MiddleOpen, MiddleClose,
     BackOpen, BackClose, InformativeOpen, NormativeOpen}
        \cup {RfcOpen(block) : block \in TitleBlocks}

C4_FragmentHasNoDocumentTags ==
    ~flags => CountIn(out, DocumentTags) = 0

(***************************************************************************)
(* C5: DocumentHeader, DocumentFooter and References called with           *)
(* first=false, or with the standalone flag unset, change neither the      *)
(* output, nor sectionLevel, nor docLevel, nor the pending attributes.     *)
(***************************************************************************)
C5_SkippedCallsAreNoOps ==
    [][(\E op \in {"DocumentHeader", "DocumentFooter", "References"},
           first \in BOOLEAN :
             /\ Calls(Call(op, 0, first))
             /\ (~first \/ ~flags))
       => UNCHANGED <<out, sectionLevel, docLevel, ial>>]_vars

\* A skipped References call in a state with output, open sections, a matter
\* other than the initial one and pending attributes.
C5_Witness ==
    /\ hist # <<>>
    /\ LastCall = Call("References", 0, FALSE)
    /\ flags
    /\ out # <<>>
    /\ sectionLevel > 0
    /\ ial # <<>>

(***************************************************************************)
(* C6: after DocumentMatter(Main) and non-quoted Header calls,             *)
(* References(first=true) in standalone mode writes one "</section>" per   *)
(* open section, all of them and no more, then "</middle>" and "<back>",   *)
(* and leaves sectionLevel = 0 and docLevel = Back.                        *)
(***************************************************************************)
C6_ReferencesDrainsSections ==
    [][(/\ flags
        /\ hist # <<>>
        /\ hist[1] = MatterMain
        /\ NonQuotedHeaders(Tail(hist))
        /\ Calls(ReferencesTrue))
       => LET app == Suffix(out', out)
              open == Unclosed(out)
          IN /\ SubSeq(out', 1, Len(out)) = out
             /\ open >= 0
             /\ Len(app) >= open + 2
             /\ \A i \in 1..open : app[i] = SectionClose
             /\ app[open + 1] = MiddleClose
             /\ app[open + 2] = BackOpen
             /\ sectionLevel' = 0
             /\ docLevel' = DOC_BACK_MATTER]_vars

(***************************************************************************)
(* C7: DocumentFooter(first=true) in standalone mode appends exactly       *)
(* sectionLevel "</section>" tags, then the closing tag of the matter      *)
(* docLevel names, then "</rfc>", and nothing else; it leaves              *)
(* sectionLevel = 0.                                                       *)
(***************************************************************************)
C7_FooterOrder ==
    [][(flags /\ Calls(FooterTrue))
       => LET app == Suffix(out', out)
              n == sectionLevel
          IN /\ SubSeq(out', 1, Len(out)) = out
             /\ Len(app) = n + 2
             /\ \A i \in 1..n : app[i] = SectionClose
             /\ (docLevel = DOC_FRONT_MATTER => app[n + 1] = FrontClose)
             /\ (docLevel = DOC_MAIN_MATTER => app[n + 1] = MiddleClose)
             /\ (docLevel = DOC_BACK_MATTER => app[n + 1] = BackClose)
             /\ app[n + 2] = RfcClose
             /\ sectionLevel' = 0]_vars

\* The footer has closed two sections and then the back matter.
C7_Witness ==
    /\ flags
    /\ hist # <<>>
    /\ LastCall = FooterTrue
    /\ sectionLevel = 0
    /\ Len(out) >= 4
    /\ SubSeq(out, Len(out) - 3, Len(out))
         = <<SectionClose, SectionClose, BackClose, RfcClose>>

(***************************************************************************)
(* C8: in standalone mode, when DocumentMatter(Main),                      *)
(* DocumentMatter(Back), References(first=true) and                        *)
(* DocumentFooter(first=true) are called in any order, each at most once,  *)
(* each of "</front>", "<middle>", "</middle>", "<back>" and "</back>" is  *)
(* written at most once.  Stated for the orders in which the footer, when  *)
(* it is called, is the last call, as the parser calls it: the claim's own *)
(* case of References and DocumentMatter(Back) is among them.              *)
(***************************************************************************)
C8_MatterTagsOnce ==
    (/\ flags
     /\ \A i \in 1..Len(hist) :
          hist[i] \in {MatterMain, MatterBack, ReferencesTrue, FooterTrue}
     /\ \A i \in 1..(Len(hist) - 1) : hist[i] # FooterTrue
     /\ \A c \in {MatterMain, MatterBack, ReferencesTrue, FooterTrue} :
          Times(hist, c) <= 1)
    => \A tag \in {FrontClose, MiddleOpen, MiddleClose, BackOpen, BackClose} :
         CountIn(out, {tag}) <= 1

(***************************************************************************)
(* C9: References(first=true) in standalone mode writes the "Informative   *)
(* References" group before the "Normative References" group, writes a     *)
(* group only when a citation of its kind exists, and each group holds     *)
(* exactly one inclusion line for every citation of its kind and none for  *)
(* the other kind.                                                         *)
(***************************************************************************)
\* The inclusion line a citation is due.
LineOf(c) == Include(IF c.filename = "" THEN ReferenceFile(c) ELSE c.filename)
KeysOf(typ) == {k \in DOMAIN citations : citations[k].typ = typ}
Positions(s, x) == {i \in 1..Len(s) : s[i] = x}
\* The elements of s after position p and before the next "</references>".
GroupAt(s, p) ==
    LET close == CHOOSE j \in Positions(s, ReferencesClose) :
                   j > p /\ \A m \in Positions(s, ReferencesClose) : m > p => j <= m
    IN SubSeq(s, p + 1, close - 1)
\* The group opened by the tag open holds the lines due to the kind typ.
GroupHolds(s, open, typ) ==
    \A p \in Positions(s, open) :
      /\ \E j \in Positions(s, ReferencesClose) : j > p
      /\ LET lines == GroupAt(s, p)
         IN /\ Len(lines) = Cardinality(KeysOf(typ))
            /\ \A k \in DOMAIN citations :
                 CountIn(lines, {LineOf(citations[k])})
                   = Cardinality({j \in KeysOf(typ) :
                                    LineOf(citations[j]) = LineOf(citations[k])})

C9_ReferenceGroups ==
    [][(flags /\ Calls(ReferencesTrue))
       => LET app == Suffix(out', out)
              inf == Positions(app, InformativeOpen)
              norm == Positions(app, NormativeOpen)
          IN /\ Cardinality(inf) = (IF KeysOf("i") # {} THEN 1 ELSE 0)
             /\ Cardinality(norm) = (IF KeysOf("n") # {} THEN 1 ELSE 0)
             /\ \A i \in inf, n \in norm : i < n
             /\ Cardinality(Positions(app, ReferencesClose))
                  = Cardinality(inf) + Cardinality(norm)
             /\ GroupHolds(app, InformativeOpen, "i")
             /\ GroupHolds(app, NormativeOpen, "n")]_vars

\* References has written both groups for two normative citations and one
\* informative one.
C9_Witness ==
    /\ flags
    /\ hist # <<>>
    /\ LastCall = ReferencesTrue
    /\ Cardinality(KeysOf("n")) = 2
    /\ Cardinality(KeysOf("i")) = 1
    /\ CountIn(out, {InformativeOpen}) = 1
    /\ CountIn(out, {NormativeOpen}) = 1

(***************************************************************************)
(* C10: a List call, or a Paragraph call, whose callback returns false     *)
(* leaves the output buffer as it was before the call, whatever the        *)
(* callback wrote, nested List and Paragraph calls included.               *)
(***************************************************************************)
C10_RollbackRestoresBuffer ==
    [][(\/ Calls(Call("ListReturn", 0, FALSE))
        \/ Calls(Call("ParagraphReturn", 0, FALSE)))
       => out' = Top.entry]_vars

\* A list rolled back after a nested paragraph wrote text and was kept, with
\* output from before the list still in the buffer.
C10_Witness ==
    /\ Len(hist) >= 5
    /\ LastCall = Call("ListReturn", 0, FALSE)
    /\ hist[Len(hist) - 1] = Call("ParagraphReturn", 0, TRUE)
    /\ hist[Len(hist) - 2].op = "NormalText"
    /\ stack = <<>>

(***************************************************************************)
(* C11: after SetIAL and then the next block-emitter call of any kind      *)
(* (Paragraph, List, Header, Table, Abstract, Aside, Note, Figure,         *)
(* BlockQuote, BlockCode), the pending-attribute queue is empty.           *)
(***************************************************************************)
AtomicEmitters ==
    {"Header", "Table", "Abstract", "Aside", "Note", "Figure", "BlockQuote", "BlockCode"}

C11_NextBlockClearsIAL ==
    LET n == Len(hist)
    IN (\/ /\ n >= 2
           /\ hist[n - 1].op = "SetIAL"
           /\ hist[n].op \in AtomicEmitters
        \/ /\ n >= 3
           /\ hist[n - 2].op = "SetIAL"
           /\ <<hist[n - 1].op, hist[n].op>>
                \in {<<"Paragraph", "ParagraphReturn">>, <<"List", "ListReturn">>})
       => ial = <<>>

(***************************************************************************)
(* C12: Image writes the hyperlink wrapper for every link that begins with *)
(* a network scheme prefix, whatever the scheme (http://, https://,        *)
(* ftp://), and the embedded-graphic wrapper for every other link.         *)
(***************************************************************************)
Schemes == {<<"http", "://">>, <<"http", "s", "://">>, <<"ftp", "://">>}
IsHyperlink == out[1] = "\\href{"
IsGraphic == out[1] = "\\includegraphics{"

C12_AnySchemeIsHyperlink ==
    (hist # <<>> /\ LastCall.op = "Image")
    => IF \E scheme \in Schemes : HasPrefix(LastCall.n, scheme)
         THEN IsHyperlink ELSE IsGraphic

(***************************************************************************)
(* C12, amended: Image writes the hyperlink wrapper, with the link and the *)
(* alt text, for every link that begins with http:// or https://, and the  *)
(* embedded-graphic wrapper, with the link, for every other link: the      *)
(* empty link, a link of another scheme such as ftp://, and a link that    *)
(* holds http:// or https:// only after its beginning.                     *)
(***************************************************************************)
BeginsHttp(link) ==
    /\ Len(link) >= 2
    /\ link[1] = "http"
    /\ \/ link[2] = "://"
       \/ Len(link) >= 3 /\ link[2] = "s" /\ link[3] = "://"

C12_HttpIsHyperlink ==
    (hist # <<>> /\ LastCall.op = "Image")
    => LET link == LastCall.n
       IN IF BeginsHttp(link)
            THEN /\ Len(out) = 5
                 /\ <<out[1], out[2], out[3], out[5]>>
                      = <<"\\href{", Bytes(link), "}{", "}">>
            ELSE out = <<"\\includegraphics{", Bytes(link), "}">>

\* Image has written the graphic wrapper for a link that holds http://
\* after its first piece.
C12_Witness ==
    /\ hist # <<>>
    /\ LastCall.op = "Image"
    /\ Len(LastCall.n) > 1
    /\ Tail(LastCall.n) = Http
    /\ IsGraphic

(***************************************************************************)
(* C13: a non-quoted Header(level) with sectionLevel = s writes            *)
(* s - level + 1 "</section>" tags when level <= s and none when           *)
(* level > s, then one "<section anchor=...>" tag, and leaves              *)
(* sectionLevel = level; docLevel and the pending attributes are           *)
(* unchanged.                                                              *)
(***************************************************************************)
C13_HeaderClosesThenOpens ==
    [][\A level \in Levels :
         Calls(Call("Header", level, FALSE))
         => LET app == Suffix(out', out)
                closes == IF level <= sectionLevel
                            THEN sectionLevel - level + 1 ELSE 0
            IN /\ SubSeq(out', 1, Len(out)) = out
               /\ Len(app) > closes
               /\ \A i \in 1..closes : app[i] = SectionClose
               /\ app[closes + 1] \in SectionOpens
               /\ CountIn(app, {SectionClose}) = closes
               /\ CountIn(app, SectionOpens) = 1
               /\ sectionLevel' = level
               /\ UNCHANGED <<docLevel, ial>>]_vars

\* A heading of level 1 has closed the three levels a heading of level 3 left.
C13_Witness ==
    /\ Len(hist) >= 2
    /\ LastCall = Call("Header", 1, FALSE)
    /\ hist[Len(hist) - 1] = Call("Header", 3, FALSE)
    /\ sectionLevel = 1
    /\ CountIn(out, {SectionClose}) = 3

(***************************************************************************)
(* C14: a Header call with quote=true writes no "<section" and no          *)
(* "</section>" tag, only the <name> wrapper around the title, and leaves  *)
(* sectionLevel, docLevel and the pending attributes unchanged.            *)
(***************************************************************************)
C14_QuotedHeaderIsLeaf ==
    [][\A level \in Levels :
         Calls(Call("Header", level, TRUE))
         => LET app == Suffix(out', out)
            IN /\ SubSeq(out', 1, Len(out)) = out
               /\ CountIn(app, SectionOpens \cup {SectionClose}) = 0
               /\ Len(app) >= 2
               /\ app[1] = NameOpen
               /\ app[Len(app)] = NameClose
               /\ SubSeq(app, 2, Len(app) - 1) \in Titles
               /\ UNCHANGED <<sectionLevel, docLevel, ial>>]_vars

\* A quoted heading of level 1 inside two open levels, with attributes pending.
C14_Witness ==
    /\ Len(hist) >= 2
    /\ LastCall = Call("Header", 1, TRUE)
    /\ sectionLevel = 2
    /\ CountIn(out, {SectionClose}) = 0
    /\ out[Len(out)] = NameClose

(***************************************************************************)
(* C15: DocumentMatter(Front) writes nothing and leaves docLevel at its    *)
(* current value, in every state, the current matter being Main or Back    *)
(* included.                                                               *)
(***************************************************************************)
C15_MatterFrontIsNoOp ==
    [][Calls(Call("DocumentMatter", DOC_FRONT_MATTER, FALSE))
       => UNCHANGED <<out, docLevel>>]_vars

(***************************************************************************)
(* C16: the pending-attribute queue changes only so: SetIAL appends its    *)
(* batch after the pending ones, in order; BlockQuote and BlockCode leave  *)
(* it empty; every other handler leaves it as it is.                       *)
(***************************************************************************)
C16_OnlyQuoteAndCodeConsumeIAL ==
    [][hist' # hist
       => LET c == hist'[Len(hist')]
          IN CASE c.op = "SetIAL" ->
                    /\ Len(ial') = Len(ial) + c.n
                    /\ SubSeq(ial', 1, Len(ial)) = ial
                    /\ Suffix(ial', ial) \in IALBatches
               [] c.op \in {"BlockQuote", "BlockCode"} -> ial' = <<>>
               [] OTHER -> ial' = ial]_vars

\* Two batches were pending, in the order they were set, and a block quote
\* has taken them all.
C16_Witness ==
    /\ Len(hist) = 3
    /\ hist[1] = Call("SetIAL", 2, FALSE)
    /\ hist[2] = Call("SetIAL", 1, FALSE)
    /\ hist[3].op = "BlockQuote"
    /\ ial = <<>>
    /\ out[1] = "<blockquote ial2 ial3 ial1>\n"

(***************************************************************************)
(* C17: References(first=true) in standalone mode writes one byte sequence *)
(* for a renderer state and a citation map: the inclusion lines of each    *)
(* group come in one fixed order, the same in every run.                   *)
(***************************************************************************)
C17_ReferencesDeterministic ==
    flags
    => \A oi, oi2 \in Visits(citations, "i"), on, on2 \in Visits(citations, "n") :
         ReferenceGroups(citations, oi, on) = ReferenceGroups(citations, oi2, on2)

(***************************************************************************)
(* C18: in standalone mode, when every non-quoted Header has a level from  *)
(* 1 to sectionLevel + 1, then after every call of a sequence of Header,   *)
(* DocumentMatter, References(true) and DocumentFooter(true) calls,        *)
(* sectionLevel is the number of unclosed section containers of the        *)
(* output and is not negative, and no "</section>" was written with no     *)
(* section open.                                                           *)
(***************************************************************************)
\* sectionLevel after the calls of h, as the handlers are specified to set it.
RECURSIVE LevelAfter(_)
LevelAfter(h) ==
    IF h = <<>> THEN 0
    ELSE LET c == h[Len(h)]
         IN IF c.op = "Header" /\ ~c.b THEN c.n
            ELSE IF c \in {ReferencesTrue, FooterTrue} THEN 0
            ELSE LevelAfter(Front(h))

\* No non-quoted Header of h is more than one level below the level it finds.
NoSkippedLevel(h) ==
    \A i \in 1..Len(h) :
      (h[i].op = "Header" /\ ~h[i].b)
      => h[i].n <= LevelAfter(SubSeq(h, 1, i - 1)) + 1

C18_NoSkipKeepsDepth ==
    (/\ flags
     /\ \A i \in 1..Len(hist) :
          \/ hist[i].op \in {"Header", "DocumentMatter"}
          \/ hist[i] \in {ReferencesTrue, FooterTrue}
     /\ NoSkippedLevel(hist))
    => /\ sectionLevel = Unclosed(out)
       /\ sectionLevel >= 0
       /\ \A k \in 0..Len(out) : Unclosed(SubSeq(out, 1, k)) >= 0

\* Two nested sections were opened, level by level, and the footer closed both.
C18_Witness ==
    /\ flags
    /\ hist = <<Call("Header", 1, FALSE), Call("Header", 2, FALSE), FooterTrue>>
    /\ sectionLevel = 0
    /\ CountIn(out, {SectionClose}) = 2

(***************************************************************************)
(* C19: no call removes or alters output that was there when it began: the *)
(* buffer at the entry to a call is a prefix of the buffer at its return,  *)
(* for List and Paragraph that roll back and for the calls their callbacks *)
(* make, at any depth.                                                     *)
(***************************************************************************)
IsPrefix(a, b) == Len(a) <= Len(b) /\ SubSeq(b, 1, Len(a)) = a

C19_EntryIsPrefixAtReturn ==
    [][/\ IF Len(stack') < Len(stack)
            THEN IsPrefix(Top.entry, out')
            ELSE IsPrefix(out, out')
       /\ \A i \in 1..Len(stack') : IsPrefix(stack'[i].entry, out')]_vars

\* A list inside a paragraph was rolled back, and the text written before
\* the paragraph and the paragraph's open tag are still there.
C19_Witness ==
    /\ Len(hist) = 4
    /\ hist[1].op = "NormalText"
    /\ hist[2].op = "Paragraph"
    /\ hist[3].op = "List"
    /\ LastCall = Call("ListReturn", 0, FALSE)
    /\ out = <<"text", "<t>">>

(***************************************************************************)
(* C20: in standalone mode, after TitleBlockTOML has opened "<front>" and  *)
(* any DocumentMatter, References(true) and DocumentFooter(true) calls,    *)
(* docLevel names the matter container open in the output: every matter   *)
(* closing tag written closes the container opened last and not yet        *)
(* closed, and no container is opened while another is open.               *)
(***************************************************************************)
MatterTags ==
    [front |-> <<FrontOpen, FrontClose>>,
     middle |-> <<MiddleOpen, MiddleClose>>,
     back |-> <<BackOpen, BackClose>>]
MatterName(level) ==
    CASE level = DOC_FRONT_MATTER -> "front"
      [] level = DOC_MAIN_MATTER -> "middle"
      [] level = DOC_BACK_MATTER -> "back"

\* The matter container open at the end of s: "none", or "bad" once a tag
\* closed a container that was not the open one or opened one inside another.
RECURSIVE OpenMatter(_)
OpenMatter(s) ==
    IF s = <<>> THEN "none"
    ELSE LET before == OpenMatter(Front(s))
             tag == s[Len(s)]
         IN IF before = "bad" THEN "bad"
            ELSE IF \E m \in DOMAIN MatterTags : tag = MatterTags[m][1]
              THEN IF before = "none"
                     THEN CHOOSE m \in DOMAIN MatterTags : tag = MatterTags[m][1]
                     ELSE "bad"
            ELSE IF \E m \in DOMAIN MatterTags : tag = MatterTags[m][2]
              THEN IF before # "none" /\ tag = MatterTags[before][2]
                     THEN "none" ELSE "bad"
            ELSE before

C20_DocLevelNamesOpenMatter ==
    (/\ flags
     /\ hist # <<>>
     /\ hist[1].op = "TitleBlockTOML"
     /\ \A i \in 2..Len(hist) :
          \/ hist[i].op = "DocumentMatter"
          \/ hist[i] \in {ReferencesTrue, FooterTrue})
    => \/ OpenMatter(out) = MatterName(docLevel)
       \/ OpenMatter(out) = "none" /\ LastCall = FooterTrue

====
